---------------------------- MODULE Spec2Model ----------------------------
(***************************************************************************)
(* A model of src/src/your_library/padic.py: the PadicInteger value type,  *)
(* its two constructors and its operators __add__, __sub__ and __mul__.    *)
(*                                                                         *)
(* The digits of a PadicInteger live in a numpy array whose dtype is       *)
(* chosen from the prime (uint8, uint16 or uint32).  Reading digits[i]     *)
(* yields a numpy scalar of that dtype, and arithmetic on such scalars     *)
(* wraps modulo 2^width.  A number in the model is therefore a record      *)
(* [w, v]: v is the value and w the width of the numpy scalar that holds   *)
(* it, with w = 0 for a Python int (or an int64, which no value of the     *)
(* model overflows).                                                       *)
(*                                                                         *)
(* The repository pins no numpy version, and the two promotion regimes     *)
(* numpy has shipped differ on the code's mixed expressions: under NEP 50  *)
(* (numpy >= 2) a uint8 scalar combined with a Python int stays uint8,     *)
(* before that it became an int64.  The variable nep50 is that choice.     *)
(***************************************************************************)
EXTENDS Integers, Sequences, FiniteSets, TLC

VARIABLES
    nep50,   \* TRUE: numpy promotes by NEP 50 (numpy >= 2); FALSE: by value (numpy 1.x)
    arg,     \* the arguments of a constructor call: [value, prime, precision]
    obj,     \* what that call produced: a PadicInteger or the exception raised
    lhs,     \* the left operand (self) of an operator call
    rhs,     \* the right operand (other)
    third,   \* a third operand, for sums of three
    op,      \* the operator applied last
    res,     \* what it produced: a PadicInteger or the exception raised
    steps    \* how many operators a chain of calls has applied

vars == <<nep50, arg, obj, lhs, rhs, third, op, res, steps>>

---------------------------------------------------------------------------
(* Bounds of the model. *)

(* Constructor calls: integers 0..MaxValue, precisions 0..MaxCtorPrecision, *)
(* lists of at most MaxLen entries.                                         *)
MaxValue == 130

MaxCtorPrecision == 10

MaxLen == 3

(* Operands of the operators: built from the integers 0..MaxN or from digit *)
(* lists of at most MaxDigits entries, with precisions 0..MaxPrecision.     *)
MaxN == 6

MaxPrecision == 2

MaxDigits == 2

(* Chains of operator calls: operands built from 0..ChainMaxN with          *)
(* precisions 1..ChainMaxPrecision, at most MaxSteps calls.                 *)
ChainMaxN == 2

ChainMaxPrecision == 1

MaxSteps == 2

(* Constructor calls with primes beyond 2^31: integers below                *)
(* (MaxQuotient + 1) * prime, precisions 1..MaxWidePrecision.               *)
MaxQuotient == 2

MaxWidePrecision == 3

(* The primes of the model: the smallest, the one of the example, and the   *)
(* smallest whose digits a uint8 sum cannot hold (2 * 130 > 255).           *)
Primes == {2, 5, 131}

(* The primes of constructor calls: those, and one stored as uint16.        *)
CtorPrimes == Primes \cup {257}

---------------------------------------------------------------------------
(* Numbers: Python ints and numpy scalars. *)

PyInt(v) == [w |-> 0, v |-> v]

RECURSIVE Pow(_, _)
Pow(b, e) == IF e = 0 THEN 1 ELSE b * Pow(b, e - 1)

Max(m, n) == IF m >= n THEN m ELSE n

Min(m, n) == IF m <= n THEN m ELSE n

(* The value v as held by an unsigned scalar of width w (w = 0: unbounded). *)
Wrap(v, w) == IF w = 0 THEN v ELSE v % Pow(2, w)

(* The dtype of the result of a binary operation on two scalars. *)
ResultWidth(x, y) ==
    IF x.w = 0 /\ y.w = 0 THEN 0
    ELSE IF x.w # 0 /\ y.w # 0 THEN Max(x.w, y.w)
    ELSE IF nep50 THEN Max(x.w, y.w)
    ELSE 0

NpAdd(x, y) == LET w == ResultWidth(x, y) IN [w |-> w, v |-> Wrap(x.v + y.v, w)]

NpSub(x, y) == LET w == ResultWidth(x, y) IN [w |-> w, v |-> Wrap(x.v - y.v, w)]

NpMul(x, y) == LET w == ResultWidth(x, y) IN [w |-> w, v |-> Wrap(x.v * y.v, w)]

NpMod(x, y) == LET w == ResultWidth(x, y) IN [w |-> w, v |-> Wrap(x.v % y.v, w)]

NpFloorDiv(x, y) == LET w == ResultWidth(x, y) IN [w |-> w, v |-> Wrap(x.v \div y.v, w)]

---------------------------------------------------------------------------
(* Construction. *)

ValueError == [kind |-> "ValueError"]

IndexError == [kind |-> "IndexError"]

OverflowError == [kind |-> "OverflowError"]

None == [kind |-> "None"]

IsObj(o) == o.kind = "PadicInteger"

(* self.dtype: the width in bits of the array's unsigned element type. *)
Dtype(prime) == IF prime < 256 THEN 8 ELSE (IF prime < 65536 THEN 16 ELSE 32)

(* A constructor that zero-pads a short list to the precision. *)
PrefixPadded(value, precision) ==
    [i \in 1..precision |-> IF i <= Len(value) THEN value[i] ELSE 0]

(* value[:precision], for precision >= 0. *)
Prefix(value, precision) == SubSeq(value, 1, Min(Len(value), precision))

(* np.array(values, dtype=...) on a list of Python ints: an int the dtype    *)
(* cannot hold is rejected under NEP 50 and stored modulo 2^width before it. *)
NpArray(values, w) ==
    IF \A i \in 1..Len(values) : values[i] = Wrap(values[i], w)
    THEN [kind |-> "array", digits |-> values]
    ELSE IF nep50 THEN OverflowError
    ELSE [kind |-> "array", digits |-> [i \in 1..Len(values) |-> Wrap(values[i], w)]]

RECURSIVE IntToPadicLoop(_, _, _, _)
IntToPadicLoop(n, prime, count, digits) ==
    IF count <= 0 THEN digits
    ELSE IntToPadicLoop(n \div prime, prime, count - 1, Append(digits, n % prime))

_int_to_padic(n, prime, precision) ==
    NpArray(IntToPadicLoop(n, prime, precision, <<>>), Dtype(prime))

(* The value argument of the constructor is [type, n, items]: type "int"    *)
(* with the integer n, type "list" with the entries items, or another type. *)
IntValue(n) == [type |-> "int", n |-> n, items |-> <<>>]

ListValue(ds) == [type |-> "list", n |-> 0, items |-> ds]

OtherValue == [type |-> "str", n |-> 0, items |-> <<>>]

__init__(value, prime, precision) ==
    LET arr == IF value.type = "int" THEN _int_to_padic(value.n, prime, precision)
               ELSE IF value.type = "list"
                    THEN NpArray(Prefix(value.items, precision), Dtype(prime))
                    ELSE ValueError
    IN  IF arr.kind # "array" THEN arr
        ELSE [kind |-> "PadicInteger", prime |-> prime, precision |-> precision,
              dtype |-> Dtype(prime), digits |-> arr.digits]


---------------------------------------------------------------------------
(* Construction from an integer when the prime needs more than 31 bits.    *)
(* A Python int is unbounded; here such an integer is [hi, lo], denoting   *)
(* hi * 2^16 + lo with 0 <= lo < 2^16.                                     *)

Limb == Pow(2, 16)

Wide(hi, lo) == [hi |-> hi, lo |-> lo]

WideLess(x, y) == x.hi < y.hi \/ (x.hi = y.hi /\ x.lo < y.lo)

(* x - y, for x >= y. *)
WideMinus(x, y) ==
    IF x.lo >= y.lo THEN Wide(x.hi - y.hi, x.lo - y.lo)
    ELSE Wide(x.hi - y.hi - 1, x.lo + Limb - y.lo)

WidePlus(x, y) == Wide(x.hi + y.hi + (x.lo + y.lo) \div Limb, (x.lo + y.lo) % Limb)

(* x * q for a small natural q. *)
WideTimes(x, q) == Wide(x.hi * q + (x.lo * q) \div Limb, (x.lo * q) % Limb)

(* n // prime, for n < (MaxQuotient + 1) * prime. *)
WideFloorDiv(n, prime) ==
    CHOOSE q \in 0..MaxQuotient :
        ~WideLess(n, WideTimes(prime, q)) /\ WideLess(n, WideTimes(prime, q + 1))

(* n % prime *)
WideMod(n, prime) == WideMinus(n, WideTimes(prime, WideFloorDiv(n, prime)))

(* self.dtype *)
WideDtype(prime) ==
    IF WideLess(prime, Wide(0, 256)) THEN 8
    ELSE IF WideLess(prime, Wide(1, 0)) THEN 16 ELSE 32

(* Whether the unsigned type of w bits holds x, and x modulo 2^w. *)
WideFits(x, w) ==
    IF w = 32 THEN x.hi < Limb ELSE x.hi = 0 /\ x.lo < Pow(2, w)

WideWrap(x, w) ==
    IF w = 32 THEN Wide(x.hi % Limb, x.lo) ELSE Wide(0, x.lo % Pow(2, w))

(* np.array(values, dtype=...) *)
WideNpArray(values, w) ==
    IF \A i \in 1..Len(values) : WideFits(values[i], w)
    THEN [kind |-> "array", digits |-> values]
    ELSE IF nep50 THEN OverflowError
    ELSE [kind |-> "array", digits |-> [i \in 1..Len(values) |-> WideWrap(values[i], w)]]

RECURSIVE WideIntToPadicLoop(_, _, _, _)
WideIntToPadicLoop(n, prime, count, digits) ==
    IF count <= 0 THEN digits
    ELSE WideIntToPadicLoop(Wide(0, WideFloorDiv(n, prime)), prime, count - 1,
                            Append(digits, WideMod(n, prime)))

(* PadicInteger(n, prime, precision) for an int n. *)
WideFromInt(n, prime, precision) ==
    LET arr == WideNpArray(WideIntToPadicLoop(n, prime, precision, <<>>),
                           WideDtype(prime))
    IN  IF arr.kind # "array" THEN arr
        ELSE [kind |-> "PadicInteger", prime |-> prime, precision |-> precision,
              dtype |-> WideDtype(prime), digits |-> arr.digits]

---------------------------------------------------------------------------
(* The operators. *)

(* self.digits[i], i counted from 0: a scalar of the array's dtype. *)
Digit(self, i) == [w |-> self.dtype, v |-> self.digits[i + 1]]

(* Whether reading position i of both operands stays inside their arrays. *)
InBounds(self, other, i) ==
    /\ i < self.precision => i < Len(self.digits)
    /\ i < other.precision => i < Len(other.digits)

(* The list an operator hands to the constructor: scalars, as their values. *)
Values(result) == [i \in 1..Len(result) |-> result[i].v]

RECURSIVE AddLoop(_, _, _, _, _)

(* The loop of an addition that appends the sum without reducing it. *)
AddLoopWithoutMod(self, other, i, carry, result) ==
    IF i >= Max(self.precision, other.precision) THEN [kind |-> "list", items |-> result]
    ELSE IF ~InBounds(self, other, i) THEN IndexError
    ELSE LET a == IF i < self.precision THEN Digit(self, i) ELSE PyInt(0)
             b == IF i < other.precision THEN Digit(other, i) ELSE PyInt(0)
             digit_sum == NpAdd(NpAdd(a, b), carry)
         IN  AddLoop(self, other, i + 1, NpFloorDiv(digit_sum, PyInt(self.prime)),
                     Append(result, digit_sum))

AddLoop(self, other, i, carry, result) ==
    IF i >= Max(self.precision, other.precision) THEN [kind |-> "list", items |-> result]
    ELSE IF ~InBounds(self, other, i) THEN IndexError
    ELSE LET a == IF i < self.precision THEN Digit(self, i) ELSE PyInt(0)
             b == IF i < other.precision THEN Digit(other, i) ELSE PyInt(0)
             digit_sum == NpAdd(NpAdd(a, b), carry)
         IN  AddLoop(self, other, i + 1, NpFloorDiv(digit_sum, PyInt(self.prime)),
                     Append(result, NpMod(digit_sum, PyInt(self.prime))))

(* An addition that does not compare the primes. *)
AddWithoutPrimeCheck(self, other) ==
    LET r == AddLoop(self, other, 0, PyInt(0), <<>>)
    IN  IF r.kind # "list" THEN r
        ELSE __init__(ListValue(Values(r.items)), self.prime,
                      Max(self.precision, other.precision))

__add__(self, other) ==
    IF self.prime # other.prime THEN ValueError
    ELSE LET r == AddLoop(self, other, 0, PyInt(0), <<>>)
         IN  IF r.kind # "list" THEN r
             ELSE __init__(ListValue(Values(r.items)), self.prime,
                           Max(self.precision, other.precision))

RECURSIVE SubLoop(_, _, _, _, _)
SubLoop(self, other, i, borrow, result) ==
    IF i >= Max(self.precision, other.precision) THEN [kind |-> "list", items |-> result]
    ELSE IF ~InBounds(self, other, i) THEN IndexError
    ELSE LET a == IF i < self.precision THEN Digit(self, i) ELSE PyInt(0)
             b == IF i < other.precision THEN Digit(other, i) ELSE PyInt(0)
             digit_diff == NpAdd(NpSub(NpSub(a, b), borrow), PyInt(self.prime))
         IN  SubLoop(self, other, i + 1,
                     IF digit_diff.v < self.prime THEN PyInt(1) ELSE PyInt(0),
                     Append(result, NpMod(digit_diff, PyInt(self.prime))))

__sub__(self, other) ==
    IF self.prime # other.prime THEN ValueError
    ELSE LET r == SubLoop(self, other, 0, PyInt(0), <<>>)
         IN  IF r.kind # "list" THEN r
             ELSE __init__(ListValue(Values(r.items)), self.prime,
                           Max(self.precision, other.precision))

(* The inner loop over j for one i; result is indexed from 0 in the code. *)
RECURSIVE MulInner(_, _, _, _, _, _)
MulInner(self, other, i, j, carry, result) ==
    IF j >= other.precision THEN [kind |-> "list", items |-> result, carry |-> carry]
    ELSE IF i >= Len(self.digits) \/ j >= Len(other.digits) THEN IndexError
    ELSE LET temp == NpAdd(NpAdd(result[i + j + 1],
                                 NpMul(Digit(self, i), Digit(other, j))), carry)
         IN  MulInner(self, other, i, j + 1, NpFloorDiv(temp, PyInt(self.prime)),
                      [result EXCEPT ![i + j + 1] = NpMod(temp, PyInt(self.prime))])

RECURSIVE MulOuter(_, _, _, _)
MulOuter(self, other, i, result) ==
    IF i >= self.precision THEN [kind |-> "list", items |-> result]
    ELSE LET r == MulInner(self, other, i, 0, PyInt(0), result)
         IN  IF r.kind # "list" THEN r
             ELSE MulOuter(self, other, i + 1,
                           [r.items EXCEPT ![i + other.precision + 1] = r.carry])

__mul__(self, other) ==
    IF self.prime # other.prime THEN ValueError
    ELSE LET r == MulOuter(self, other, 0,
                           [k \in 1..(self.precision + other.precision) |-> PyInt(0)])
         IN  IF r.kind # "list" THEN r
             ELSE __init__(ListValue(Values(r.items)), self.prime,
                           self.precision + other.precision)

---------------------------------------------------------------------------
(* Inputs. *)

RECURSIVE SeqsUpTo(_, _)
SeqsUpTo(S, n) ==
    IF n = 0 THEN {<<>>}
    ELSE LET shorter == SeqsUpTo(S, n - 1)
         IN  shorter \cup {Append(q, d) : q \in {t \in shorter : Len(t) = n - 1}, d \in S}

(* List entries of constructor calls: some digits, the largest value a      *)
(* uint8 holds, and the values next to either end of its range.             *)
ListEntries == {-1, 0, 1, 4, 255, 256}

CtorArgs ==
    [value : {IntValue(n) : n \in 0..MaxValue}
             \cup {ListValue(ds) : ds \in SeqsUpTo(ListEntries, MaxLen)}
             \cup {OtherValue},
     prime : CtorPrimes,
     precision : 0..MaxCtorPrecision]

(* Digits of the operands built from lists: the ends of the range [0, p-1]. *)
DigitChoices(p) == {0, 1, p - 1}

(* The operands of prime p, from either constructor. *)
Operands(p) ==
    {o \in {__init__(IntValue(n), p, k) : n \in 0..MaxN, k \in 0..MaxPrecision}
           \cup {__init__(ListValue(ds), p, k) :
                     ds \in SeqsUpTo(DigitChoices(p), MaxDigits), k \in 0..MaxPrecision} :
        IsObj(o)}

(* precision digits, each in [0, prime-1]. *)
WellFormed(o) ==
    /\ IsObj(o)
    /\ Len(o.digits) = o.precision
    /\ \A i \in 1..Len(o.digits) : o.digits[i] \in 0..(o.prime - 1)

---------------------------------------------------------------------------
(* Constructor calls. *)

InitCtor ==
    /\ nep50 \in BOOLEAN
    /\ arg \in CtorArgs
    /\ obj = None
    /\ lhs = None /\ rhs = None /\ third = None /\ res = None
    /\ op = "none" /\ steps = 0

NewFromInt ==
    /\ obj = None /\ arg.value.type = "int"
    /\ obj' = __init__(arg.value, arg.prime, arg.precision)
    /\ UNCHANGED <<nep50, arg, lhs, rhs, third, op, res, steps>>

NewFromList ==
    /\ obj = None /\ arg.value.type = "list"
    /\ obj' = __init__(arg.value, arg.prime, arg.precision)
    /\ UNCHANGED <<nep50, arg, lhs, rhs, third, op, res, steps>>

NewFromOther ==
    /\ obj = None /\ arg.value.type \notin {"int", "list"}
    /\ obj' = __init__(arg.value, arg.prime, arg.precision)
    /\ UNCHANGED <<nep50, arg, lhs, rhs, third, op, res, steps>>

NextCtor == NewFromInt \/ NewFromList \/ NewFromOther

SpecCtor == InitCtor /\ [][NextCtor]_vars

---------------------------------------------------------------------------
(* Constructor calls with primes beyond 2^31. *)

(* 65537, 2^32 - 5 and 2^32 + 15. *)
WidePrimes == {Wide(1, 1), Wide(65535, 65531), Wide(65536, 15)}

(* Remainders: the ends of [0, prime - 1] and the values around 2^32. *)
WideRemainders(prime) ==
    {r \in {Wide(0, 0), Wide(0, 1), Wide(1, 0), Wide(65535, 65535), Wide(65536, 0),
            WideMinus(prime, Wide(0, 1))} : WideLess(r, prime)}

InitWide ==
    /\ nep50 \in BOOLEAN
    /\ \E prime \in WidePrimes, q \in 0..MaxQuotient, precision \in 1..MaxWidePrecision :
           \E r \in WideRemainders(prime) :
               arg = [value |-> [type |-> "int", n |-> WidePlus(WideTimes(prime, q), r),
                                 items |-> <<>>],
                      prime |-> prime, precision |-> precision]
    /\ obj = None
    /\ lhs = None /\ rhs = None /\ third = None /\ res = None
    /\ op = "none" /\ steps = 0

NewFromWideInt ==
    /\ obj = None
    /\ obj' = WideFromInt(arg.value.n, arg.prime, arg.precision)
    /\ UNCHANGED <<nep50, arg, lhs, rhs, third, op, res, steps>>

NextWide == NewFromWideInt

SpecWide == InitWide /\ [][NextWide]_vars

---------------------------------------------------------------------------
(* Operator calls on two operands. *)

Init ==
    /\ nep50 \in BOOLEAN
    /\ \E p \in Primes, q \in Primes :
           /\ lhs \in Operands(p)
           /\ rhs \in Operands(q)
    /\ third = None /\ arg = None /\ obj = None /\ res = None
    /\ op = "none" /\ steps = 0

Add ==
    /\ res' = __add__(lhs, rhs)
    /\ op' = "add"
    /\ UNCHANGED <<nep50, arg, obj, lhs, rhs, third, steps>>

Sub ==
    /\ res' = __sub__(lhs, rhs)
    /\ op' = "sub"
    /\ UNCHANGED <<nep50, arg, obj, lhs, rhs, third, steps>>

Mul ==
    /\ res' = __mul__(lhs, rhs)
    /\ op' = "mul"
    /\ UNCHANGED <<nep50, arg, obj, lhs, rhs, third, steps>>

Next == Add \/ Sub \/ Mul

Spec == Init /\ [][Next]_vars

---------------------------------------------------------------------------
(* Sums of three operands of one prime and one precision. *)

InitAssoc ==
    /\ nep50 \in BOOLEAN
    /\ \E p \in Primes, k \in 0..MaxPrecision :
           LET same == {o \in Operands(p) : WellFormed(o) /\ o.precision = k}
           IN  lhs \in same /\ rhs \in same /\ third \in same
    /\ arg = None /\ obj = None /\ res = None
    /\ op = "none" /\ steps = 0

(* (lhs + rhs) + third *)
AddLeft ==
    /\ res' = __add__(__add__(lhs, rhs), third)
    /\ op' = "add_left"
    /\ UNCHANGED <<nep50, arg, obj, lhs, rhs, third, steps>>

(* lhs + (rhs + third) *)
AddRight ==
    /\ res' = __add__(lhs, __add__(rhs, third))
    /\ op' = "add_right"
    /\ UNCHANGED <<nep50, arg, obj, lhs, rhs, third, steps>>

NextAssoc == Add \/ AddLeft \/ AddRight

SpecAssoc == InitAssoc /\ [][NextAssoc]_vars

---------------------------------------------------------------------------
(* Chains of operator calls: each call takes its operands among the two    *)
(* values the caller holds and its result replaces one of them.            *)

InitChain ==
    /\ nep50 \in BOOLEAN
    /\ \E p \in Primes :
           LET made == {__init__(IntValue(n), p, k) :
                            n \in 0..ChainMaxN, k \in 1..ChainMaxPrecision}
           IN  lhs \in made /\ rhs \in made
    /\ third = None /\ arg = None /\ obj = None /\ res = None
    /\ op = "none" /\ steps = 0

Rebind(r, dst) ==
    /\ res' = r
    /\ lhs' = IF IsObj(r) /\ dst = "lhs" THEN r ELSE lhs
    /\ rhs' = IF IsObj(r) /\ dst = "rhs" THEN r ELSE rhs
    /\ steps' = steps + 1
    /\ UNCHANGED <<nep50, arg, obj, third>>

ChainAdd ==
    /\ steps < MaxSteps
    /\ \E u \in {lhs, rhs}, v \in {lhs, rhs}, dst \in {"lhs", "rhs"} :
           Rebind(__add__(u, v), dst)
    /\ op' = "add"

ChainSub ==
    /\ steps < MaxSteps
    /\ \E u \in {lhs, rhs}, v \in {lhs, rhs}, dst \in {"lhs", "rhs"} :
           Rebind(__sub__(u, v), dst)
    /\ op' = "sub"

ChainMul ==
    /\ steps < MaxSteps
    /\ \E u \in {lhs, rhs}, v \in {lhs, rhs}, dst \in {"lhs", "rhs"} :
           Rebind(__mul__(u, v), dst)
    /\ op' = "mul"

NextChain == ChainAdd \/ ChainSub \/ ChainMul

SpecChain == InitChain /\ [][NextChain]_vars

---------------------------------------------------------------------------
(* The mathematics the claims are stated in. *)

(* b^e, or some number above cap when b^e exceeds cap. *)
RECURSIVE CapPow(_, _, _)
CapPow(b, e, cap) ==
    IF e = 0 THEN 1
    ELSE LET r == CapPow(b, e - 1, cap) IN IF r > cap THEN r ELSE r * b

(* m mod p^k, for m >= 0. *)
ModPow(m, p, k) == LET c == CapPow(p, k, m) IN IF c > m THEN m ELSE m % c

(* The digit of weight p^i in the base-p expansion of m >= 0. *)
ExpDigit(m, p, i) == LET c == CapPow(p, i, m) IN IF c > m THEN 0 ELSE (m \div c) % p

(* The little-endian base-p expansion of m, zero-padded to k digits. *)
Expansion(m, p, k) == [i \in 1..k |-> ExpDigit(m, p, i - 1)]

(* The integer that little-endian base-p digits denote. *)
RECURSIVE ValFrom(_, _, _)
ValFrom(digits, p, i) ==
    IF i > Len(digits) THEN 0 ELSE digits[i] + p * ValFrom(digits, p, i + 1)

Val(o) == ValFrom(o.digits, o.prime, 1)

(* The first min(len(ds), k) entries of ds. *)
FirstEntries(ds, k) == [i \in 1..Min(Len(ds), k) |-> ds[i]]

---------------------------------------------------------------------------
(* Claims about construction, checked under SpecCtor. *)

(* C1 for the primes of SpecCtor, all below 2^31: for n >= 0 and k >= 1,    *)
(* constructing from the integer n gives exactly k digits, the little-endian *)
(* base-p expansion of n mod p^k, zero-padded to length k.                  *)
C1_IntDigits ==
    (obj # None /\ arg.value.type = "int" /\ arg.precision >= 1) =>
        /\ IsObj(obj)
        /\ Len(obj.digits) = arg.precision
        /\ obj.digits = Expansion(ModPow(arg.value.n, arg.prime, arg.precision),
                                  arg.prime, arg.precision)

(* The example of the specification: construct(123, 5, 10). *)
C1_Witness ==
    /\ arg.value = IntValue(123) /\ arg.prime = 5 /\ arg.precision = 10
    /\ IsObj(obj)
    /\ obj.digits = <<3, 4, 4, 0, 0, 0, 0, 0, 0, 0>>

(* C1 for every prime, those beyond 2^31 included, under SpecWide: for      *)
(* n >= 0 and k >= 1, constructing from the integer n gives exactly k       *)
(* digits, the base-p expansion of n mod p^k.  SpecWide draws               *)
(* n < (MaxQuotient + 1) * p <= p^2, so the k digits are the expansion of   *)
(* n mod p^k exactly if each is below p, digit 0 is n - q * p for the       *)
(* quotient q, and for k >= 2 digit 1 is q and the others are 0.            *)
C1_WideIntDigits ==
    obj # None =>
        /\ IsObj(obj)
        /\ Len(obj.digits) = arg.precision
        /\ \A i \in 1..Len(obj.digits) : WideLess(obj.digits[i], arg.prime)
        /\ \E q \in 0..MaxQuotient :
               /\ arg.value.n = WidePlus(WideTimes(arg.prime, q), obj.digits[1])
               /\ \A i \in 2..Len(obj.digits) :
                      obj.digits[i] = Wide(0, IF i = 2 THEN q ELSE 0)

Fits(e, width) == e >= 0 /\ (width < 31 => e < Pow(2, width))

---------------------------------------------------------------------------
(* Claims about one operator call, checked under Spec. *)

(* Both operands hold precision digits in [0, p-1] and share the prime. *)
Comparable == WellFormed(lhs) /\ WellFormed(rhs) /\ lhs.prime = rhs.prime

(* C2: a + b has precision K = max of the precisions and its K digits are   *)
(* the base-p expansion of (val(a) + val(b)) mod p^K; no error is raised.   *)
C2_AddIsSumModPK ==
    (op = "add" /\ Comparable) =>
        LET K == Max(lhs.precision, rhs.precision)
        IN  /\ IsObj(res)
            /\ res.precision = K
            /\ res.digits = Expansion((Val(lhs) + Val(rhs)) % Pow(lhs.prime, K),
                                      lhs.prime, K)

(* C3: a - b has precision K = max of the precisions and its K digits are   *)
(* the base-p expansion of (val(a) - val(b)) mod p^K.                       *)
C3_SubIsDifferenceModPK ==
    (op = "sub" /\ Comparable) =>
        LET K == Max(lhs.precision, rhs.precision)
        IN  /\ IsObj(res)
            /\ res.precision = K
            /\ res.digits = Expansion((Val(lhs) - Val(rhs)) % Pow(lhs.prime, K),
                                      lhs.prime, K)

(* C4: a * b has precision a.precision + b.precision, holds that many       *)
(* digits, and they are the base-p expansion of val(a) * val(b).            *)
C4_MulIsExactProduct ==
    (op = "mul" /\ Comparable) =>
        LET K == lhs.precision + rhs.precision
        IN  /\ IsObj(res)
            /\ res.precision = K
            /\ Len(res.digits) = K
            /\ res.digits = Expansion(Val(lhs) * Val(rhs), lhs.prime, K)

(* C5: when the primes differ, each operator fails with the operand-mismatch *)
(* error, also where reading a digit would fail, and returns no result; no   *)
(* operator call changes an operand.                                         *)
C5_MismatchFailsFirst ==
    /\ []((op # "none" /\ lhs.prime # rhs.prime) => res = ValueError)
    /\ [][lhs' = lhs /\ rhs' = rhs]_vars

(* Primes differ, one operand holds fewer digits than its precision, and    *)
(* the call has failed with the mismatch error.                             *)
C5_Witness ==
    /\ op = "mul" /\ lhs.prime # rhs.prime
    /\ Len(lhs.digits) < lhs.precision /\ rhs.precision > 0
    /\ res = ValueError

(* C8: for operands of either constructor that share the prime, each        *)
(* operator completes and returns a new instance.                           *)
C8_TotalOnSamePrime ==
    (op # "none" /\ lhs.prime = rhs.prime) => IsObj(res)

(* The operand with its digits held as unbounded integers. *)
Unbounded(o) == [o EXCEPT !.dtype = 0]

(* C9: the digits each operator returns, computed on digits held at the     *)
(* storage width, equal those the same algorithm returns on unbounded       *)
(* integers.                                                                *)
C9_WidthHasNoEffect ==
    Comparable =>
        /\ op = "add" => res = __add__(Unbounded(lhs), Unbounded(rhs))
        /\ op = "sub" => res = __sub__(Unbounded(lhs), Unbounded(rhs))
        /\ op = "mul" => res = __mul__(Unbounded(lhs), Unbounded(rhs))

---------------------------------------------------------------------------
(* Claims about sums of three, checked under SpecAssoc. *)

(* C6: for a, b, c of one prime and one precision k, with k digits in      *)
(* [0, p-1] each: a + b equals b + a, and (a + b) + c equals a + (b + c),  *)
(* the results having precision k.                                         *)
C6_AddCommutesAndAssociates ==
    /\ op = "add" => (res = __add__(rhs, lhs) /\ res.precision = lhs.precision)
    /\ op = "add_left" =>
           (res = __add__(lhs, __add__(rhs, third)) /\ res.precision = lhs.precision)
    /\ op = "add_right" =>
           (res = __add__(__add__(lhs, rhs), third) /\ res.precision = lhs.precision)

---------------------------------------------------------------------------
(* Claims about chains of calls, checked under SpecChain. *)

(* C10: starting from values constructed from integers with one prime and  *)
(* precisions >= 1, every value a sequence of add, subtract and multiply   *)
(* reaches has as many digits as its precision, each in [0, p-1], and the  *)
(* prime the sequence started with.                                        *)
C10_WellFormedPreserved ==
    /\ [](/\ WellFormed(lhs) /\ WellFormed(rhs) /\ lhs.prime = rhs.prime
          /\ op # "none" => (WellFormed(res) /\ res.prime = lhs.prime))
    /\ [][lhs'.prime = lhs.prime /\ rhs'.prime = rhs.prime]_vars

(* The product of a value that an earlier call of the chain returned. *)
C10_Witness ==
    /\ steps >= 2 /\ op = "mul" /\ IsObj(res)
    /\ res.precision >= 2
    /\ \E i \in 1..Len(res.digits) : res.digits[i] > 1

=============================================================================
